---- MODULE Spec2Model ----
(***************************************************************************)
(* Defender attention / impact dashboard: the table pipeline of app.py    *)
(* (build_base_dataframe + the df_view section) and of                    *)
(* player_attention_table_streamlit.py (create_player_attention_table).   *)
(*                                                                         *)
(* Representation.                                                         *)
(*  - A DataFrame is a sequence of records (its rows, in frame order).    *)
(*    A column that a frame does not have is a field its rows do not have *)
(*    (and a name missing from the frame's column set).                   *)
(*  - A nullable cell is Null (NaN / None) or Some(v).                    *)
(*  - Identifiers are integers before .astype(str) and strings after it.  *)
(*  - display_name is a sequence of code points (ordered as Python orders *)
(*    str), position a sequence of one-letter strings.                    *)
(*  - avg_attention, high_attention_pct and impact_score are integers in  *)
(*    hundredths; a mean or a median is an exact fraction [n, d].         *)
(***************************************************************************)
EXTENDS Integers, Sequences, FiniteSets, TLC

\* ------------------------------------------------------------------------
\* Bounds of the explored inputs
\* ------------------------------------------------------------------------
MaxAtt == 2            \* rows of the attention table
MaxDet == 2            \* rows of the intervention table
MaxInteractions == 1   \* widget changes after the first run of the script
MaxPosLen == 4         \* letters of a raw position (position scenarios)
MaxViewRows == 120     \* rows of a RankedView (pagination scenarios)

\* ------------------------------------------------------------------------
\* Cells
\* ------------------------------------------------------------------------
Null == <<>>
Some(v) == <<v>>
IsNull(c) == c = Null
Get(c) == c[1]

\* str(n) for the identifiers the scenarios use
IdStr == <<"1", "2", "3">>

\* Series.astype(str) on an identifier cell: NaN becomes the string "nan"
astype_str_id(c) == IF IsNull(c) THEN "nan" ELSE IdStr[Get(c)]

\* Series.astype(str) on a text cell (team_abbr)
astype_str(c) == IF IsNull(c) THEN "nan" ELSE Get(c)

\* ------------------------------------------------------------------------
\* Sequences
\* ------------------------------------------------------------------------
RECURSIVE Flatten(_)
Flatten(ss) == IF ss = <<>> THEN <<>> ELSE Head(ss) \o Flatten(Tail(ss))

RECURSIVE SumSeq(_)
SumSeq(s) == IF s = <<>> THEN 0 ELSE Head(s) + SumSeq(Tail(s))

Range(s) == {s[i] : i \in 1..Len(s)}

\* all sequences over S of length lo..hi
SeqsOf(S, lo, hi) == UNION {[1..n -> S] : n \in lo..hi}

\* ------------------------------------------------------------------------
\* Exact fractions (float results of mean / median)
\* ------------------------------------------------------------------------
Abs(x) == IF x < 0 THEN -x ELSE x

RECURSIVE GCD(_, _)
GCD(a, b) == IF b = 0 THEN a ELSE GCD(b, a % b)

Frac(n, d) == LET g == GCD(Abs(n), d) IN [n |-> n \div g, d |-> d \div g]
Zero == Frac(0, 1)
FracLess(a, b) == a.n * b.d < b.n * a.d
FracGeq(a, b) == a.n * b.d >= b.n * a.d
FracHalfSum(a, b) == Frac(a.n * b.d + b.n * a.d, 2 * a.d * b.d)

\* ------------------------------------------------------------------------
\* Position Grouper
\* ------------------------------------------------------------------------
\* position_groups, in dict order (app.py 38-42, streamlit 43-47)
position_groups ==
    << [g |-> "LB", vals |-> << <<"L","B">>, <<"I","L","B">>, <<"M","L","B">>, <<"O","L","B">> >>],
       [g |-> "CB", vals |-> << <<"C","B">>, <<"D","B">> >>],
       [g |-> "S",  vals |-> << <<"S">>, <<"S","A","F">> >>] >>

\* Python's  v in s  on strings
Contains(v, s) ==
    \E i \in 1..(Len(s) - Len(v) + 1) : SubSeq(s, i, i + Len(v) - 1) = v

\* any(v in str(pos) for v in vals)
AnyIn(vals, pos) == \E k \in 1..Len(vals) : Contains(vals[k], pos)

\* a later group wins over an earlier one
get_position_group_last_wins(pos) ==
    IF IsNull(pos) THEN "Other"
    ELSE LET hits == {k \in 1..Len(position_groups) : AnyIn(position_groups[k].vals, Get(pos))}
         IN IF hits = {} THEN "Other"
            ELSE position_groups[CHOOSE k \in hits : \A j \in hits : j <= k].g

\* get_position_group: the first group, in dict order, one of whose tokens
\* occurs in the position; "Other" for NaN and for no hit
get_position_group(pos) ==
    IF IsNull(pos) THEN "Other"
    ELSE LET hits == {k \in 1..Len(position_groups) : AnyIn(position_groups[k].vals, Get(pos))}
         IN IF hits = {} THEN "Other"
            ELSE position_groups[CHOOSE k \in hits : \A j \in hits : k <= j].g

\* ------------------------------------------------------------------------
\* Schema Normalizer: copies with the join keys cast to str
\* ------------------------------------------------------------------------
cast_attention(df) ==
    [i \in 1..Len(df) |-> [df[i] EXCEPT !.nfl_id = astype_str_id(df[i].nfl_id)]]

cast_players(nfl_players) ==
    [i \in 1..Len(nfl_players) |->
        [nfl_players[i] EXCEPT !.nfl_id = astype_str_id(nfl_players[i].nfl_id)]]

cast_teams(nfl_teams) ==
    [i \in 1..Len(nfl_teams) |->
        [nfl_teams[i] EXCEPT !.team_abbr = astype_str(nfl_teams[i].team_abbr)]]

\* ------------------------------------------------------------------------
\* Identity & Team Join
\* ------------------------------------------------------------------------
\* how="inner": a left row without a match is dropped
merge_players_inner(df, players) ==
    Flatten([i \in 1..Len(df) |->
        LET m == SelectSeq(players, LAMBDA p : p.nfl_id = df[i].nfl_id)
        IN [j \in 1..Len(m) |->
               df[i] @@ [display_name |-> m[j].display_name, position |-> m[j].position,
                         latest_team |-> m[j].latest_team, headshot |-> m[j].headshot]]])

\* df.merge(nfl_players[[...]], on="nfl_id", how="left"): one output row per
\* matching player row, in left order; a left row without a match once, with
\* NaN in the player columns
merge_players(df, players) ==
    Flatten([i \in 1..Len(df) |->
        LET m == SelectSeq(players, LAMBDA p : p.nfl_id = df[i].nfl_id)
        IN IF m = <<>>
           THEN << df[i] @@ [display_name |-> Null, position |-> Null,
                             latest_team |-> Null, headshot |-> Null] >>
           ELSE [j \in 1..Len(m) |->
                   df[i] @@ [display_name |-> m[j].display_name, position |-> m[j].position,
                             latest_team |-> m[j].latest_team, headshot |-> m[j].headshot]]])

\* df.merge(nfl_teams[[...]], left_on="latest_team", right_on="team_abbr",
\* how="left"): latest_team is not cast, so a NaN latest_team equals no
\* team_abbr string
merge_teams(df, teams) ==
    Flatten([i \in 1..Len(df) |->
        LET m == SelectSeq(teams, LAMBDA t :
                     ~IsNull(df[i].latest_team) /\ Get(df[i].latest_team) = t.team_abbr)
        IN IF m = <<>>
           THEN << df[i] @@ [team_abbr |-> Null, team_color |-> Null, team_color2 |-> Null] >>
           ELSE [j \in 1..Len(m) |->
                   df[i] @@ [team_abbr |-> Some(m[j].team_abbr), team_color |-> m[j].team_color,
                             team_color2 |-> m[j].team_color2]]])

\* df["position_group"] = df["position"].apply(get_position_group)
add_position_group(df) ==
    [i \in 1..Len(df) |-> df[i] @@ [position_group |-> get_position_group(df[i].position)]]

\* ------------------------------------------------------------------------
\* Intervention Aggregator
\* ------------------------------------------------------------------------
\* str.lower() of an intervention type
lower_type(t) ==
    CASE t = "REMOVAL" -> "removal"
      [] t = "Removal" -> "removal"
      [] t = "FREEZE"  -> "freeze"
      [] OTHER -> t

\* df_detailed_results[df_detailed_results["intervention_type"] == "removal"]
removal_rows(det) == SelectSeq(det, LAMBDA r : r.intervention_type = "removal")

\* df_detailed_results["defender_nfl_id"].astype(str)
cast_defender(det) ==
    [i \in 1..Len(det) |->
        [det[i] EXCEPT !.defender_nfl_id = astype_str_id(det[i].defender_nfl_id)]]

\* group keys in order of first appearance (the order has no effect on a
\* left merge against unique keys)
group_keys(det) ==
    LET first == SelectSeq([i \in 1..Len(det) |-> i], LAMBDA i :
                     \A j \in 1..(i - 1) : det[j].defender_nfl_id # det[i].defender_nfl_id)
    IN [k \in 1..Len(first) |-> det[first[k]].defender_nfl_id]

\* ("impact_score", "mean") of one group
group_mean(g) == Frac(SumSeq([i \in 1..Len(g) |-> g[i].impact_score]), Len(g))

\* ("defender_nfl_id", "size") of one group
group_size(g) == Len(g)

\* .groupby("defender_nfl_id").agg(intervention_removal=size,
\*                                 impact_removal=mean).reset_index()
removal_stats(det) ==
    LET keys == group_keys(det)
    IN [k \in 1..Len(keys) |->
          LET g == SelectSeq(det, LAMBDA r : r.defender_nfl_id = keys[k])
          IN [defender_nfl_id |-> keys[k],
              intervention_removal |-> group_size(g),
              impact_removal |-> group_mean(g)]]

\* .groupby("defender_nfl_id").size().reset_index(name="total_interventions")
total_interventions(det) ==
    LET keys == group_keys(det)
    IN [k \in 1..Len(keys) |->
          [defender_nfl_id |-> keys[k],
           total_interventions |->
               Len(SelectSeq(det, LAMBDA r : r.defender_nfl_id = keys[k]))]]

\* df.merge(removal_stats, left_on="nfl_id", right_on="defender_nfl_id",
\* how="left")
merge_removal_stats(df, stats) ==
    Flatten([i \in 1..Len(df) |->
        LET m == SelectSeq(stats, LAMBDA r : r.defender_nfl_id = df[i].nfl_id)
        IN IF m = <<>>
           THEN << df[i] @@ [defender_nfl_id |-> Null, intervention_removal |-> Null,
                             impact_removal |-> Null] >>
           ELSE [j \in 1..Len(m) |->
                   df[i] @@ [defender_nfl_id |-> Some(m[j].defender_nfl_id),
                             intervention_removal |-> Some(m[j].intervention_removal),
                             impact_removal |-> Some(m[j].impact_removal)]]])

\* df["intervention_removal"].fillna(0).astype(int); df["impact_removal"].fillna(0)
fillna_removal(df) ==
    [i \in 1..Len(df) |->
        [df[i] EXCEPT
            !.intervention_removal = IF IsNull(@) THEN 0 ELSE Get(@),
            !.impact_removal = IF IsNull(@) THEN Zero ELSE Get(@)]]

\* df.drop(columns=[c])
drop_column(df, c) ==
    [i \in 1..Len(df) |-> [f \in (DOMAIN df[i]) \ {c} |-> df[i][f]]]

\* how="inner": a player without intervention rows is dropped
merge_total_interventions_inner(df, totals) ==
    Flatten([i \in 1..Len(df) |->
        LET m == SelectSeq(totals, LAMBDA r : r.defender_nfl_id = df[i].nfl_id)
            left == [f \in (DOMAIN df[i]) \ {"defender_nfl_id"} |-> df[i][f]]
                    @@ [defender_nfl_id_x |-> df[i].defender_nfl_id]
        IN [j \in 1..Len(m) |->
               left @@ [defender_nfl_id_y |-> Some(m[j].defender_nfl_id),
                        total_interventions |-> m[j].total_interventions]]])

\* the second merge of the streamlit variant: the frame already has a
\* defender_nfl_id column, so pandas suffixes both (_x, _y) and the later
\* drop of "defender_nfl_id" finds nothing to drop
merge_total_interventions(df, totals) ==
    Flatten([i \in 1..Len(df) |->
        LET m == SelectSeq(totals, LAMBDA r : r.defender_nfl_id = df[i].nfl_id)
            left == [f \in (DOMAIN df[i]) \ {"defender_nfl_id"} |-> df[i][f]]
                    @@ [defender_nfl_id_x |-> df[i].defender_nfl_id]
        IN IF m = <<>>
           THEN << left @@ [defender_nfl_id_y |-> Null, total_interventions |-> 0] >>
           ELSE [j \in 1..Len(m) |->
                   left @@ [defender_nfl_id_y |-> Some(m[j].defender_nfl_id),
                            total_interventions |-> m[j].total_interventions]]])

\* the RangeIndex 0..n-1 of a merged frame, kept by later filters and sorts
with_index(df) == [i \in 1..Len(df) |-> df[i] @@ [idx |-> i - 1]]

\* ------------------------------------------------------------------------
\* The enriched table, per variant
\* ------------------------------------------------------------------------
joined(df, nfl_players, nfl_teams) ==
    add_position_group(
        merge_teams(merge_players(cast_attention(df), cast_players(nfl_players)),
                    cast_teams(nfl_teams)))

\* app.py build_base_dataframe: its first result (df)
build_base_dataframe(df, nfl_players, nfl_teams, det) ==
    with_index(
        drop_column(
            fillna_removal(
                merge_removal_stats(joined(df, nfl_players, nfl_teams),
                                    removal_stats(cast_defender(removal_rows(det))))),
            "defender_nfl_id"))

\* the aggregator runs only for a supplied, non-empty table (streamlit 76)
has_interventions(detOpt) == ~IsNull(detOpt) /\ Len(Get(detOpt)) > 0

\* player_attention_table_streamlit.py 34-106: df_with_players
df_with_players_of(df, nfl_players, nfl_teams, detOpt) ==
    IF has_interventions(detOpt)
    THEN LET det == cast_defender(removal_rows(Get(detOpt)))
         IN with_index(
                merge_total_interventions(
                    fillna_removal(
                        merge_removal_stats(joined(df, nfl_players, nfl_teams),
                                            removal_stats(det))),
                    total_interventions(det)))
    ELSE with_index(joined(df, nfl_players, nfl_teams))

\* the columns of the enriched table
base_columns ==
    {"nfl_id", "avg_attention", "play_count", "high_attention_pct", "display_name",
     "position", "latest_team", "headshot", "team_abbr", "team_color", "team_color2",
     "position_group"}

columns_app == base_columns \cup {"intervention_removal", "impact_removal"}

columns_streamlit(detOpt) ==
    IF has_interventions(detOpt)
    THEN base_columns \cup {"intervention_removal", "impact_removal",
                            "defender_nfl_id_x", "defender_nfl_id_y", "total_interventions"}
    ELSE base_columns

\* ------------------------------------------------------------------------
\* Filter/Sort View Builder
\* ------------------------------------------------------------------------
\* Python's < on str: lexicographic by code point
LexLess(a, b) ==
    \E k \in 1..(Len(b)) :
        /\ \A j \in 1..(k - 1) : j <= Len(a) /\ a[j] = b[j]
        /\ (k > Len(a) \/ (k <= Len(a) /\ a[k] < b[k]))
        /\ k - 1 <= Len(a)

\* str.lower() on code points
Lower(a) == [i \in 1..Len(a) |-> IF a[i] >= 65 /\ a[i] <= 90 THEN a[i] + 32 ELSE a[i]]

\* only display_name can hold NaN among the sort keys
KeyIsNull(col, r) == col = "display_name" /\ IsNull(r.display_name)

KeyLess(col, a, b) ==
    CASE col = "display_name"   -> LexLess(Get(a.display_name), Get(b.display_name))
      [] col = "impact_removal" -> FracLess(a.impact_removal, b.impact_removal)
      [] OTHER                  -> a[col] < b[col]

\* every key sorted ascending
sort_values_always_ascending(rows, col, ascending, kind) ==
    LET n == Len(rows)
        Before(i, j) ==
            IF KeyIsNull(col, rows[i]) THEN KeyIsNull(col, rows[j]) /\ i < j
            ELSE IF KeyIsNull(col, rows[j]) THEN TRUE
            ELSE \/ KeyLess(col, rows[i], rows[j])
                 \/ /\ ~KeyLess(col, rows[i], rows[j]) /\ ~KeyLess(col, rows[j], rows[i])
                    /\ i < j
        pos(i) == 1 + Cardinality({j \in 1..n : Before(j, i)})
    IN [k \in 1..n |-> rows[CHOOSE i \in 1..n : pos(i) = k]]

\* DataFrame.sort_values(col, ascending=ascending) with the default
\* kind="quicksort" and na_position="last": NaN keys go last in frame order;
\* the order of rows with equal keys is what the sort of the installed numpy
\* does with them: kept ("keep") or not ("swap")
sort_values(rows, col, ascending, kind) ==
    LET n == Len(rows)
        Tie(i, j) == IF kind = "keep" THEN i < j ELSE j < i
        Before(i, j) ==
            IF KeyIsNull(col, rows[i]) THEN KeyIsNull(col, rows[j]) /\ i < j
            ELSE IF KeyIsNull(col, rows[j]) THEN TRUE
            ELSE \/ IF ascending THEN KeyLess(col, rows[i], rows[j])
                                 ELSE KeyLess(col, rows[j], rows[i])
                 \/ /\ ~KeyLess(col, rows[i], rows[j]) /\ ~KeyLess(col, rows[j], rows[i])
                    /\ Tie(i, j)
        pos(i) == 1 + Cardinality({j \in 1..n : Before(j, i)})
    IN [k \in 1..n |-> rows[CHOOSE i \in 1..n : pos(i) = k]]

\* ranks that restart from the row's index label
with_rank_from_index(rows) == [k \in 1..Len(rows) |-> rows[k] @@ [rank |-> rows[k].idx + 1]]

\* df_view["rank"] = range(1, len(df_view) + 1)
with_rank(rows) == [k \in 1..Len(rows) |-> rows[k] @@ [rank |-> k]]

\* df["play_count"].max() of a non-empty frame
max_play_count(rows) ==
    LET S == {rows[i].play_count : i \in 1..Len(rows)}
    IN CHOOSE m \in S : \A x \in S : x <= m

\* the threshold read as a number of plays
plays_filter_absolute(rows, plays, current_max) ==
    SelectSeq(rows, LAMBDA r : r.play_count >= plays)

\* rows with play_count >= (plays / 100) * current_max, in exact arithmetic
plays_filter(rows, plays, current_max) ==
    SelectSeq(rows, LAMBDA r : 100 * r.play_count >= plays * current_max)

\* the cutoff is formed for every positive threshold, also from an empty frame
threshold_applies_unguarded(rows, plays) == plays > 0

\* app.py 139: plays_value > 0 and len(df_view) > 0
threshold_applies(rows, plays) == plays > 0 /\ Len(rows) > 0

\* streamlit 516: filtered_df["play_count"].max() if len(filtered_df) > 0 else 1
current_max_plays(rows) == IF Len(rows) > 0 THEN max_play_count(rows) ELSE 1

position_filter(rows, position) ==
    IF position # "all"
    THEN SelectSeq(rows, LAMBDA r : r.position_group = position)
    ELSE rows

\* the cutoff is taken from the maximum of the whole enriched table
df_view_of_table_max(base, w, kind) ==
    LET s1 == position_filter(base, w.position)
        s2 == IF threshold_applies(s1, w.plays)
              THEN plays_filter(s1, w.plays, max_play_count(base))
              ELSE s1
    IN with_rank(sort_values(s2, w.sort, w.sort = "display_name", kind))

\* app.py 134-145: df_view
df_view_of(base, w, kind) ==
    LET s1 == position_filter(base, w.position)
        s2 == IF threshold_applies(s1, w.plays)
              THEN plays_filter(s1, w.plays, max_play_count(s1))
              ELSE s1
    IN with_rank(sort_values(s2, w.sort, w.sort = "display_name", kind))

\* display_name.str.contains(q, case=False, na=False), q without regex
\* metacharacters
search_filter(rows, q) ==
    IF q # <<>>
    THEN SelectSeq(rows, LAMBDA r :
             ~IsNull(r.display_name) /\ Contains(Lower(q), Lower(Get(r.display_name))))
    ELSE rows

team_filter(rows, team) ==
    IF team # "All Teams"
    THEN SelectSeq(rows, LAMBDA r : ~IsNull(r.latest_team) /\ Get(r.latest_team) = team)
    ELSE rows

\* streamlit 495-529: filtered_df
filtered_df_of(base, columns, w, kind) ==
    LET s1 == position_filter(team_filter(search_filter(base, w.search), w.team), w.position)
        s2 == IF w.plays > 0
              THEN plays_filter(s1, w.plays, current_max_plays(s1))
              ELSE s1
        s3 == IF w.sort \in columns
              THEN sort_values(s2, w.sort, w.sort = "display_name", kind)
              ELSE s2
    IN with_rank(s3)

\* streamlit 533
items_per_page == 50

\* streamlit 535
total_pages_of(total_items) ==
    LET p == (total_items + items_per_page - 1) \div items_per_page
    IN IF p > 1 THEN p ELSE 1

\* the ranks restart at 1 on every page
paginated_df_of_rank_restart(filtered, page) ==
    LET total_items == Len(filtered)
        page_number == IF total_items > items_per_page THEN page ELSE 1
        start_idx == (page_number - 1) * items_per_page
        end_idx == IF start_idx + items_per_page < total_items
                   THEN start_idx + items_per_page ELSE total_items
        rows == SubSeq(filtered, start_idx + 1, end_idx)
    IN [k \in 1..Len(rows) |-> [rows[k] EXCEPT !.rank = k]]

\* streamlit 538-553: paginated_df
paginated_df_of(filtered, page) ==
    LET total_items == Len(filtered)
        page_number == IF total_items > items_per_page THEN page ELSE 1
        start_idx == (page_number - 1) * items_per_page
        end_idx == IF start_idx + items_per_page < total_items
                   THEN start_idx + items_per_page ELSE total_items
    IN SubSeq(filtered, start_idx + 1, end_idx)

\* ------------------------------------------------------------------------
\* Category Classifier
\* ------------------------------------------------------------------------
\* Series.median() of a non-empty column of fractions
median(vals) ==
    LET n == Len(vals)
        Sorted(k) ==
            vals[CHOOSE i \in 1..n :
                /\ Cardinality({j \in 1..n : FracLess(vals[j], vals[i])}) < k
                /\ k <= Cardinality({j \in 1..n : ~FracLess(vals[i], vals[j])})]
    IN IF n % 2 = 1 THEN Sorted((n + 1) \div 2)
       ELSE FracHalfSum(Sorted(n \div 2), Sorted(n \div 2 + 1))

attention_column(df_data) == [i \in 1..Len(df_data) |-> Frac(df_data[i].avg_attention, 1)]
impact_column(df_data) == [i \in 1..Len(df_data) |-> df_data[i].impact_removal]

category_title(high_attention, high_impact) ==
    IF high_attention /\ high_impact THEN "High Attention - High Impact"
    ELSE IF ~high_attention /\ high_impact THEN "Low Attention - High Impact"
    ELSE IF high_attention /\ ~high_impact THEN "High Attention - Low Impact"
    ELSE "Low Attention - Low Impact"

\* strictly above the median counts as High
get_player_category_strict(avg_attention, impact_removal, df_data) ==
    category_title(FracLess(median(attention_column(df_data)), Frac(avg_attention, 1)),
                   FracLess(median(impact_column(df_data)), impact_removal))

\* get_player_category: the title of the returned dict
get_player_category(avg_attention, impact_removal, df_data) ==
    LET attention_median == median(attention_column(df_data))
        impact_median == median(impact_column(df_data))
        high_attention == FracGeq(Frac(avg_attention, 1), attention_median)
        high_impact == FracGeq(impact_removal, impact_median)
    IN category_title(high_attention, high_impact)

\* the table the categories are computed against: the displayed page
category_table_page(paginated, full_df) == paginated

\* the table create_table_html is given as full_df (streamlit 775)
category_table(paginated, full_df) == full_df

\* create_table_html(paginated_df, df_with_players): the category title of
\* every displayed row, in display order
categories_of(paginated, full_df) ==
    [k \in 1..Len(paginated) |->
        get_player_category(paginated[k].avg_attention, paginated[k].impact_removal,
                            category_table(paginated, full_df))]

\* ------------------------------------------------------------------------
\* State
\* ------------------------------------------------------------------------
VARIABLES
    df,                  \* attention table, as loaded
    nfl_players,         \* player metadata, as loaded
    nfl_teams,           \* team metadata, as loaded
    df_detailed_results, \* Null (not supplied) or Some(intervention table)
    kind,                \* tie behaviour of the installed sort: "keep" | "swap"
    variant,             \* "none" before the first run, then "app" | "streamlit"
    w,                   \* widget values of the last run
    df_base,             \* enriched table (df_base / df_with_players)
    df_columns,          \* its columns
    df_view,             \* RankedView (df_view / filtered_df)
    paginated_df,        \* the displayed page (the whole view in app.py)
    categories,          \* category title per displayed row (streamlit)
    status,              \* "idle" | "table" | "empty" | "KeyError"
    budget               \* widget changes left to explore

vars == <<df, nfl_players, nfl_teams, df_detailed_results, kind, variant, w,
          df_base, df_columns, df_view, paginated_df, categories, status, budget>>

inputs == <<df, nfl_players, nfl_teams, df_detailed_results, kind>>

\* widget options (app.py 109-129, streamlit 425-493)
Positions == {"all", "LB", "CB", "S", "Other"}
PlayVolumes == {0, 20, 50, 80}
SortKeys == {"impact_removal", "avg_attention", "high_attention_pct", "play_count",
             "display_name"}
Queries == {<<>>, <<97>>}

\* the widgets' initial values: index=0 / index=2 of the selectboxes, an empty
\* search box, page 1
default_widgets ==
    [search |-> <<>>, team |-> "All Teams", position |-> "all", plays |-> 50,
     sort |-> "impact_removal", page |-> 1]

\* streamlit 433: the teams offered by the Team selectbox
all_teams(base) == {Get(base[i].latest_team) : i \in {j \in 1..Len(base) : ~IsNull(base[j].latest_team)}}

\* ------------------------------------------------------------------------
\* Frames of one run
\* ------------------------------------------------------------------------
\* a view without its rank column
unranked(rows) == [k \in 1..Len(rows) |-> [f \in (DOMAIN rows[k]) \ {"rank"} |-> rows[k][f]]]

\* the view of the previous run is filtered further
view_source_previous(base) == IF variant = "none" THEN base ELSE unranked(df_view)

\* df_view = df_base.copy() (app.py 134), filtered_df = df_with_players.copy()
\* (streamlit 496): every run starts from the enriched table it has just built
view_source(base) == base

\* the caller's frame after the function cast a key column: the function
\* rebinds its local name to frame.copy() first (app.py 30-32, streamlit
\* 34-36), so the assignment of the cast column reaches the copy only
caller_frame(before, local) == before

\* the removal filter drops the other rows from the caller's table
caller_detailed_in_place(before, removal) == removal

\* the caller's intervention table after the removal filter: the boolean
\* mask selection is a new frame (app.py 68-70, streamlit 77), and the
\* defender cast (app.py 72, streamlit 78) assigns into that frame
caller_detailed(before, removal) == before

\* ------------------------------------------------------------------------
\* One run of a script with the widget values wn
\* ------------------------------------------------------------------------
\* app.py 20-145 and 482-486
ScriptApp(wn) ==
    LET base == build_base_dataframe(df, nfl_players, nfl_teams, Get(df_detailed_results))
        view == df_view_of(view_source(base), wn, kind)
    IN /\ df_base' = base
       /\ df_columns' = columns_app
       /\ df_view' = view
       /\ paginated_df' = view
       /\ categories' = <<>>
       /\ status' = IF Len(view) = 0 THEN "empty" ELSE "table"
       /\ w' = wn
       /\ variant' = "app"
       /\ df' = caller_frame(df, cast_attention(df))
       /\ nfl_players' = caller_frame(nfl_players, cast_players(nfl_players))
       /\ nfl_teams' = caller_frame(nfl_teams, cast_teams(nfl_teams))
       /\ df_detailed_results' =
             Some(caller_detailed(Get(df_detailed_results),
                                  removal_rows(Get(df_detailed_results))))
       /\ kind' = kind

\* create_player_attention_table(df, nfl_players, nfl_teams, df_detailed_results);
\* get_player_category reads df_data["impact_removal"], which raises KeyError
\* when the aggregator did not run and a row is displayed
ScriptStreamlit(wn) ==
    LET base == df_with_players_of(df, nfl_players, nfl_teams, df_detailed_results)
        cols == columns_streamlit(df_detailed_results)
        view == filtered_df_of(view_source(base), cols, wn, kind)
        page == paginated_df_of(view, wn.page)
        raises == Len(page) > 0 /\ "impact_removal" \notin cols
    IN /\ df_base' = base
       /\ df_columns' = cols
       /\ df_view' = view
       /\ paginated_df' = page
       /\ categories' = IF raises \/ Len(page) = 0 THEN <<>> ELSE categories_of(page, base)
       /\ status' = IF Len(page) = 0 THEN "empty"
                    ELSE IF raises THEN "KeyError" ELSE "table"
       /\ w' = wn
       /\ variant' = "streamlit"
       /\ df' = caller_frame(df, cast_attention(df))
       /\ nfl_players' = caller_frame(nfl_players, cast_players(nfl_players))
       /\ nfl_teams' = caller_frame(nfl_teams, cast_teams(nfl_teams))
       /\ df_detailed_results' =
             IF has_interventions(df_detailed_results)
             THEN Some(caller_detailed(Get(df_detailed_results),
                                       removal_rows(Get(df_detailed_results))))
             ELSE df_detailed_results
       /\ kind' = kind

Script(v, wn) == IF v = "app" THEN ScriptApp(wn) ELSE ScriptStreamlit(wn)

\* ------------------------------------------------------------------------
\* Actions
\* ------------------------------------------------------------------------
\* first run of app.py; it always loads the intervention table from a csv
RunApp ==
    /\ variant = "none"
    /\ ~IsNull(df_detailed_results)
    /\ ScriptApp(default_widgets)
    /\ UNCHANGED budget

\* first call of create_player_attention_table
RunStreamlit ==
    /\ variant = "none"
    /\ ScriptStreamlit(default_widgets)
    /\ UNCHANGED budget

\* a widget change reruns the whole script with the new value
Interact(wn) ==
    /\ variant # "none"
    /\ budget > 0
    /\ wn # w
    /\ budget' = budget - 1
    /\ Script(variant, wn)

\* the script runs again with the widgets as they are (Streamlit's rerun)
Rerun ==
    /\ variant # "none"
    /\ budget > 0
    /\ budget' = budget - 1
    /\ Script(variant, w)

SelectPosition == \E v \in Positions : Interact([w EXCEPT !.position = v])

SelectPlays == \E v \in PlayVolumes : Interact([w EXCEPT !.plays = v])

SelectSort == \E v \in SortKeys : Interact([w EXCEPT !.sort = v])

Search == /\ variant = "streamlit"
          /\ \E q \in Queries : Interact([w EXCEPT !.search = q])

SelectTeam == /\ variant = "streamlit"
              /\ \E t \in {"All Teams"} \cup all_teams(df_base) :
                    Interact([w EXCEPT !.team = t])

\* ------------------------------------------------------------------------
\* Inputs
\* ------------------------------------------------------------------------
\* display names: "Al", "Bo", "al"
NameAl == <<65, 108>>
NameBo == <<66, 111>>
Nameal == <<97, 108>>

PlayerRows ==
    << [nfl_id |-> Some(1), display_name |-> Some(NameBo), position |-> Some(<<"O","L","B">>),
        latest_team |-> Some("T1"), headshot |-> Some("h1")],
       [nfl_id |-> Some(2), display_name |-> Some(NameAl), position |-> Some(<<"C","B">>),
        latest_team |-> Some("T2"), headshot |-> Null],
       [nfl_id |-> Some(1), display_name |-> Some(Nameal), position |-> Some(<<"S","S">>),
        latest_team |-> Some("T2"), headshot |-> Some("h3")],
       [nfl_id |-> Null, display_name |-> Some(NameAl), position |-> Null,
        latest_team |-> Null, headshot |-> Null] >>

TeamRows ==
    << [team_abbr |-> Some("T1"), team_color |-> Some("#111"), team_color2 |-> Some("#aaa")],
       [team_abbr |-> Some("T2"), team_color |-> Some("#222"), team_color2 |-> Null],
       [team_abbr |-> Some("T1"), team_color |-> Some("#333"), team_color2 |-> Some("#ccc")],
       [team_abbr |-> Null, team_color |-> Some("#444"), team_color2 |-> Null] >>

\* tables made of distinct catalogue rows, in catalogue order
TablesOf(rows, lo, hi) ==
    {[i \in 1..Len(p) |-> rows[p[i]]] :
        p \in {q \in SeqsOf(1..Len(rows), lo, hi) :
                  \A i, j \in 1..Len(q) : i < j => q[i] < q[j]}}

\* attention metrics of row i when they are not the subject
AttentionRow(id, i) ==
    [nfl_id |-> id,
     avg_attention |-> <<30, 10, 20, 10>>[i],
     play_count |-> <<100, 20, 50, 20>>[i],
     high_attention_pct |-> <<60, 40, 50, 40>>[i]]

\* intervention row i: its score is fixed by its place in the table
InterventionRow(defender, type, i) ==
    [defender_nfl_id |-> defender, intervention_type |-> type,
     impact_score |-> <<8, 4, 50, 8>>[i]]

InterventionKinds ==
    {<<Some(1), "removal">>, <<Some(1), "REMOVAL">>, <<Some(1), "freeze">>,
     <<Null, "removal">>}

InterventionTables ==
    {[i \in 1..Len(s) |-> InterventionRow(s[i][1], s[i][2], i)] :
        s \in SeqsOf(InterventionKinds, 0, MaxDet)}

TwoPlayers == <<PlayerRows[1], PlayerRows[2]>>
TwoTeams == <<TeamRows[1], TeamRows[2]>>
TwoRemovals == << InterventionRow(Some(1), "removal", 1), InterventionRow(Some(1), "removal", 2) >>

\* attention rows for players 1, 2, 1, ...
PlainAttention == [i \in 1..MaxAtt |-> AttentionRow(Some(1 + ((i - 1) % 2)), i)]

Idle ==
    /\ variant = "none"
    /\ w = default_widgets
    /\ df_base = <<>>
    /\ df_columns = {}
    /\ df_view = <<>>
    /\ paginated_df = <<>>
    /\ categories = <<>>
    /\ status = "idle"

\* the join keys of the attention and player tables vary
InitKeys ==
    /\ df \in {[i \in 1..MaxAtt |-> AttentionRow(s[i], i)] : s \in [1..MaxAtt -> {Null, Some(1)}]}
    /\ nfl_players \in TablesOf(PlayerRows, 0, 2)
    /\ nfl_teams = TwoTeams
    /\ df_detailed_results = Some(TwoRemovals)
    /\ kind = "keep"

\* the team table varies
InitTeams ==
    /\ df = PlainAttention
    /\ nfl_players = TwoPlayers
    /\ nfl_teams \in TablesOf(TeamRows, 0, 2)
    /\ df_detailed_results = Some(TwoRemovals)
    /\ kind = "keep"

\* the intervention table varies, or is not supplied
InitInterventions ==
    /\ df = [PlainAttention EXCEPT ![2].nfl_id = Null]
    /\ nfl_players = TwoPlayers
    /\ nfl_teams = TwoTeams
    /\ df_detailed_results \in {Null} \cup {Some(t) : t \in InterventionTables}
    /\ kind = "keep"

\* the metrics and the sort's tie behaviour vary
InitMetrics ==
    /\ \E pc \in [1..MaxAtt -> {20, 100}], att \in [1..MaxAtt -> {10, 30}] :
          df = [i \in 1..MaxAtt |->
                   [PlainAttention[i] EXCEPT !.play_count = pc[i], !.avg_attention = att[i]]]
    /\ nfl_players = TwoPlayers
    /\ nfl_teams = TwoTeams
    /\ df_detailed_results = Some(TwoRemovals)
    /\ kind \in {"keep", "swap"}

\* a player without a team next to a team row without an abbreviation
InitNullTeam ==
    /\ df = [PlainAttention EXCEPT ![2].nfl_id = Null]
    /\ nfl_players = << PlayerRows[1], PlayerRows[4] >>
    /\ nfl_teams \in {<< TeamRows[4] >>, << TeamRows[1], TeamRows[4] >>}
    /\ df_detailed_results = Some(TwoRemovals)
    /\ kind = "keep"

Init ==
    /\ Idle
    /\ budget = MaxInteractions
    /\ InitKeys \/ InitTeams \/ InitInterventions \/ InitMetrics \/ InitNullTeam

Next ==
    \/ RunApp
    \/ RunStreamlit
    \/ SelectPosition
    \/ SelectPlays
    \/ SelectSort
    \/ Search
    \/ SelectTeam
    \/ Rerun

Spec == Init /\ [][Next]_vars

\* ------------------------------------------------------------------------
\* Position scenarios: one player whose raw position is any short string
\* ------------------------------------------------------------------------
PosLetters == {"L", "B", "C", "D", "S", "E"}

InitPos ==
    /\ Idle
    /\ budget = 0
    /\ df = << AttentionRow(Some(1), 1) >>
    /\ \E pos \in {Null} \cup {Some(p) : p \in SeqsOf(PosLetters, 0, MaxPosLen)} :
          nfl_players = << [PlayerRows[1] EXCEPT !.position = pos] >>
    /\ nfl_teams = TwoTeams
    /\ df_detailed_results = Some(TwoRemovals)
    /\ kind = "keep"

NextPos ==
    \/ RunApp
    \/ RunStreamlit

SpecPos == InitPos /\ [][NextPos]_vars

\* ------------------------------------------------------------------------
\* Pagination scenarios: create_player_attention_table has reached line 533
\* with a RankedView of N rows and shows its first page; the page selector
\* then picks a page.  The rows stand for enriched rows, in an order that
\* is not the frame order; the tables they were built from play no part in
\* lines 533-553 and are left empty.
\* ------------------------------------------------------------------------
ViewOfRows(n) == with_rank([k \in 1..n |-> [idx |-> n - k]])

InitPage ==
    /\ variant = "streamlit"
    /\ w = default_widgets
    /\ budget = 0
    /\ df = <<>> /\ nfl_players = <<>> /\ nfl_teams = <<>>
    /\ df_detailed_results = Null
    /\ kind = "keep"
    /\ df_columns = {}
    /\ categories = <<>>
    /\ \E n \in 0..MaxViewRows :
          /\ df_base = [k \in 1..n |-> [idx |-> k - 1]]
          /\ df_view = ViewOfRows(n)
          /\ paginated_df = paginated_df_of(ViewOfRows(n), 1)
          /\ status = IF n = 0 THEN "empty" ELSE "table"

\* streamlit 538-553: the page selector exists for more than 50 rows and
\* offers the pages 1..total_pages; the chosen page is sliced from the view
SelectPage ==
    /\ variant = "streamlit"
    /\ Len(df_view) > items_per_page
    /\ \E p \in 1..total_pages_of(Len(df_view)) :
          /\ w' = [w EXCEPT !.page = p]
          /\ paginated_df' = paginated_df_of(df_view, p)
    /\ UNCHANGED <<inputs, variant, df_base, df_columns, df_view, categories, status, budget>>

NextPage == SelectPage

SpecPage == InitPage /\ [][NextPage]_vars

\* ------------------------------------------------------------------------
\* Vocabulary of the properties
\* ------------------------------------------------------------------------
Built == variant # "none"

\* the intervention table as passed in; no rows when it is not supplied
SuppliedRows == IF IsNull(df_detailed_results) THEN <<>> ELSE Get(df_detailed_results)

UniqueKeys(table, key) ==
    \A i, j \in 1..Len(table) : i # j => table[i][key] # table[j][key]

\* the attention part of an enriched row
AttentionPart(r) ==
    [nfl_id |-> r.nfl_id, avg_attention |-> r.avg_attention, play_count |-> r.play_count,
     high_attention_pct |-> r.high_attention_pct]

\* the rows of the intervention table for player id whose type satisfies IsRemoval
RowsFor(id, IsRemoval(_)) ==
    SelectSeq(SuppliedRows, LAMBDA r :
        IsRemoval(r.intervention_type) /\ astype_str_id(r.defender_nfl_id) = id)

ExactlyRemoval(t) == t = "removal"
RemovalAnyCase(t) == lower_type(t) = "removal"

MeanOf(rows) == Frac(SumSeq([i \in 1..Len(rows) |-> rows[i].impact_score]), Len(rows))

HasRemovalColumns == {"intervention_removal", "impact_removal"} \subseteq df_columns

\* ------------------------------------------------------------------------
\* C1: with unique player and team keys the enriched table has exactly the
\* rows of the attention table: row i of the enriched table is attention
\* row i (its identifier cast to str), none dropped, none repeated.
\* ------------------------------------------------------------------------
C1_RowCountPreserved ==
    (Built /\ UniqueKeys(nfl_players, "nfl_id") /\ UniqueKeys(nfl_teams, "team_abbr"))
    => /\ Len(df_base) = Len(df)
       /\ \A i \in 1..Len(df_base) :
             AttentionPart(df_base[i]) = [df[i] EXCEPT !.nfl_id = astype_str_id(@)]

\* unique keys, a matched and an unmatched attention row, and a player with
\* an intervention aggregate
C1_Witness ==
    /\ Built
    /\ UniqueKeys(nfl_players, "nfl_id") /\ UniqueKeys(nfl_teams, "team_abbr")
    /\ Len(nfl_players) >= 1
    /\ Len(df) >= 2 /\ Len(df_base) = Len(df)
    /\ \E i, j \in 1..Len(df_base) :
          /\ IsNull(df_base[i].display_name)
          /\ ~IsNull(df_base[j].display_name)
          /\ ~IsNull(df_base[j].team_color)
          /\ df_base[j].intervention_removal > 0

\* ------------------------------------------------------------------------
\* C2: every enriched row carries intervention_removal, a non-negative
\* integer equal to the number of removal rows of the intervention table
\* whose defender identifier, as a string, is the row's player identifier.
\* ------------------------------------------------------------------------
C2_ExactRemovalCount ==
    Built =>
        /\ "intervention_removal" \in df_columns
        /\ \A i \in 1..Len(df_base) :
              /\ df_base[i].intervention_removal \in Nat
              /\ df_base[i].intervention_removal
                    = Len(RowsFor(df_base[i].nfl_id, RemovalAnyCase))

\* ------------------------------------------------------------------------
\* C3: in both variants every enriched row of a player without removal rows
\* has impact_removal 0.0 and intervention_removal 0, present and not null,
\* also for an empty and for a not supplied intervention table.
\* ------------------------------------------------------------------------
C3_DefaultsPresent ==
    Built =>
        \A i \in 1..Len(df_base) :
            RowsFor(df_base[i].nfl_id, ExactlyRemoval) = <<>>
            => /\ HasRemovalColumns
               /\ df_base[i].intervention_removal = 0
               /\ df_base[i].impact_removal = Zero

\* ------------------------------------------------------------------------
\* C4: the removal filter ignores case: where the aggregator ran, a row
\* typed "REMOVAL" is counted and averaged like a row typed "removal".
\* ------------------------------------------------------------------------
C4_CaseInsensitiveFilter ==
    (Built /\ HasRemovalColumns) =>
        \A i \in 1..Len(df_base) :
            LET mine == RowsFor(df_base[i].nfl_id, RemovalAnyCase)
            IN /\ df_base[i].intervention_removal = Len(mine)
               /\ mine # <<>> => df_base[i].impact_removal = MeanOf(mine)

\* ------------------------------------------------------------------------
\* C5: a defender with removal-type rows has impact_removal equal to the
\* mean impact_score of exactly those rows; rows of another type change
\* nothing, and a player with only non-removal rows keeps 0 and 0.0.
\* ------------------------------------------------------------------------
C5_MeanOverRemovalRows ==
    Built =>
        \A i \in 1..Len(df_base) :
            LET mine == RowsFor(df_base[i].nfl_id, RemovalAnyCase)
                any == RowsFor(df_base[i].nfl_id, LAMBDA t : TRUE)
            IN /\ mine # <<>> => /\ df_base[i].intervention_removal = Len(mine)
                                 /\ df_base[i].impact_removal = MeanOf(mine)
               /\ (mine = <<>> /\ any # <<>>) => /\ df_base[i].intervention_removal = 0
                                                 /\ df_base[i].impact_removal = Zero

\* ------------------------------------------------------------------------
\* C6: get_position_group depends on the raw position only, with ordered
\* precedence: LB for a value containing LB/ILB/MLB/OLB, else CB for one
\* containing CB/DB, else S for one containing S/SAF, else Other; Other for
\* a null value.
\* ------------------------------------------------------------------------
HasToken(pos, tokens) == \E t \in tokens : Contains(t, pos)

C6_PositionGroupPrecedence ==
    Built =>
        \A i \in 1..Len(df_base) :
            LET pos == df_base[i].position
                expected ==
                    IF IsNull(pos) THEN "Other"
                    ELSE IF HasToken(Get(pos), {<<"L","B">>, <<"I","L","B">>, <<"M","L","B">>,
                                                <<"O","L","B">>}) THEN "LB"
                    ELSE IF HasToken(Get(pos), {<<"C","B">>, <<"D","B">>}) THEN "CB"
                    ELSE IF HasToken(Get(pos), {<<"S">>, <<"S","A","F">>}) THEN "S"
                    ELSE "Other"
            IN df_base[i].position_group = expected

\* a position containing an LB token, a CB token and an S, grouped as LB
C6_Witness ==
    /\ Built
    /\ \E i \in 1..Len(df_base) :
          /\ ~IsNull(df_base[i].position)
          /\ Contains(<<"L","B">>, Get(df_base[i].position))
          /\ Contains(<<"C","B">>, Get(df_base[i].position))
          /\ df_base[i].position_group = "LB"

\* ------------------------------------------------------------------------
\* C7: a row's category title does not depend on the active filters: a
\* row displayed before and after a widget change carries the same title.
\* ------------------------------------------------------------------------
C7_CategoryIgnoresFilters ==
    [][(variant = "streamlit" /\ status = "table" /\ status' = "table")
       => \A k \in 1..Len(paginated_df) : \A l \in 1..Len(paginated_df') :
             paginated_df[k].idx = paginated_df'[l].idx => categories[k] = categories'[l]]_vars

\* a filter is active and the one displayed row is labelled Low Attention,
\* which it could not be against the medians of the view it is alone in
C7_Witness ==
    /\ variant = "streamlit" /\ status = "table"
    /\ w # default_widgets
    /\ Len(paginated_df) = 1 /\ Len(df_base) > 1
    /\ categories[1] \in {"Low Attention - High Impact", "Low Attention - Low Impact"}

\* ------------------------------------------------------------------------
\* C8: a displayed row is labelled High Attention iff its avg_attention is
\* at or above the median avg_attention of the enriched table, High Impact
\* iff its impact_removal is at or above the median impact_removal, and
\* its title is the quadrant of exactly these two tests.
\* ------------------------------------------------------------------------
AtOrAboveMedian(x, vals) ==
    LET s == SortSeq(vals, FracLess)
        n == Len(s)
    IN IF n % 2 = 1
       THEN ~FracLess(x, s[(n + 1) \div 2])
       ELSE LET a == s[n \div 2]
                b == s[(n \div 2) + 1]
            IN 2 * x.n * a.d * b.d >= x.d * (a.n * b.d + b.n * a.d)

C8_QuadrantAtMedian ==
    (variant = "streamlit" /\ status = "table") =>
        \A k \in 1..Len(paginated_df) :
            LET hiA == AtOrAboveMedian(Frac(paginated_df[k].avg_attention, 1),
                           [i \in 1..Len(df_base) |-> Frac(df_base[i].avg_attention, 1)])
                hiI == AtOrAboveMedian(paginated_df[k].impact_removal,
                           [i \in 1..Len(df_base) |-> df_base[i].impact_removal])
            IN /\ categories[k] = "High Attention - High Impact" <=> (hiA /\ hiI)
               /\ categories[k] = "Low Attention - High Impact" <=> (~hiA /\ hiI)
               /\ categories[k] = "High Attention - Low Impact" <=> (hiA /\ ~hiI)
               /\ categories[k] = "Low Attention - Low Impact" <=> (~hiA /\ ~hiI)

\* a displayed row whose avg_attention equals the median of a table of
\* several rows, labelled High Attention, next to a row labelled Low
C8_Witness ==
    /\ variant = "streamlit" /\ status = "table"
    /\ Len(df_base) >= 2
    /\ \E k \in 1..Len(paginated_df) :
          /\ \A i \in 1..Len(df_base) : df_base[i].avg_attention = paginated_df[k].avg_attention
          /\ categories[k] \in {"High Attention - High Impact", "High Attention - Low Impact"}
    /\ \E k \in 1..Len(paginated_df) :
          categories[k] \in {"High Attention - Low Impact", "Low Attention - Low Impact"}

\* ------------------------------------------------------------------------
\* C9: the k-th row of the RankedView has rank k: the ranks are 1..N in the
\* final order, without gaps or duplicates.
\* ------------------------------------------------------------------------
C9_RankIsPosition ==
    Built => \A k \in 1..Len(df_view) : df_view[k].rank = k

\* a view of several rows whose order is not the frame order
C9_Witness ==
    /\ Built
    /\ Len(df_view) >= 2
    /\ df_view[1].idx > df_view[2].idx
    /\ df_view[1].rank = 1 /\ df_view[2].rank = 2

ViewOf(v, base, columns, wn) ==
    IF v = "app" THEN df_view_of(base, wn, kind) ELSE filtered_df_of(base, columns, wn, kind)

\* the rows left by the search, team and position filters (app.py has the
\* position filter only: its search is empty and its team "All Teams")
Subset == position_filter(team_filter(search_filter(df_base, w.search), w.team), w.position)

\* the frame positions of the rows of a frame
Labels(rows) == {rows[k].idx : k \in 1..Len(rows)}

C12_EmptySubsetRendersEmptyState ==
    (Built /\ Subset = <<>>) =>
        /\ df_view = <<>>
        /\ status = "empty"
        /\ IF variant = "app"
           THEN ~threshold_applies(Subset, w.plays)
           ELSE current_max_plays(Subset) = 1

\* a position nobody plays is selected while a positive threshold is set
C12_Witness ==
    /\ Built
    /\ Len(df_base) >= 2
    /\ w.position # "all"
    /\ w.plays > 0
    /\ Subset = <<>>
    /\ status = "empty"

\* ------------------------------------------------------------------------
\* C13: a duplicated join key in the player or team table never fans out:
\* the enriched table has one row per attention row, row i being attention
\* row i, joined to the first metadata row of its key.
\* ------------------------------------------------------------------------
FirstWith(table, key, v) ==
    table[CHOOSE i \in 1..Len(table) :
              /\ table[i][key] = v
              /\ \A j \in 1..(i - 1) : table[j][key] # v]

C13_NoFanOut ==
    (Built /\ (~UniqueKeys(nfl_players, "nfl_id") \/ ~UniqueKeys(nfl_teams, "team_abbr")))
    => /\ Len(df_base) = Len(df)
       /\ \A i \in 1..Len(df_base) :
             /\ AttentionPart(df_base[i]) = [df[i] EXCEPT !.nfl_id = astype_str_id(@)]
             /\ (\E p \in 1..Len(nfl_players) : nfl_players[p].nfl_id = df[i].nfl_id)
                => df_base[i].display_name
                      = FirstWith(nfl_players, "nfl_id", df[i].nfl_id).display_name
             /\ (\E t \in 1..Len(nfl_teams) : nfl_teams[t].team_abbr = df_base[i].latest_team)
                => df_base[i].team_color
                      = FirstWith(nfl_teams, "team_abbr", df_base[i].latest_team).team_color

\* ------------------------------------------------------------------------
\* C14: when a column the pipeline expects is absent from the enriched
\* table, the run fails fast: it raises an error and produces no RankedView;
\* it does not go on without the sort.
\* ------------------------------------------------------------------------
C14_FailsFastOnMissingColumn ==
    (Built /\ ~(columns_app \subseteq df_columns))
    => /\ status = "KeyError"
       /\ df_view = <<>>

KeyOfSome(table, key, str) ==
    \E i \in 1..Len(table) : ~IsNull(table[i][key]) /\ astype_str_id(table[i][key]) = str

C16_UnmatchedKeepNulls ==
    Built =>
        /\ \A i \in 1..Len(df) :
              \E k \in 1..Len(df_base) :
                  AttentionPart(df_base[k]) = [df[i] EXCEPT !.nfl_id = astype_str_id(@)]
        /\ \A k \in 1..Len(df_base) :
              LET r == df_base[k]
              IN /\ (r.nfl_id = "nan" \/ ~KeyOfSome(nfl_players, "nfl_id", r.nfl_id))
                    => /\ IsNull(r.display_name) /\ IsNull(r.position)
                       /\ IsNull(r.latest_team) /\ IsNull(r.headshot)
                       /\ IsNull(r.team_color) /\ IsNull(r.team_color2)
                 /\ (IsNull(r.latest_team)
                       \/ \A t \in 1..Len(nfl_teams) : nfl_teams[t].team_abbr # r.latest_team)
                    => IsNull(r.team_color) /\ IsNull(r.team_color2)
                 /\ IsNull(r.position) => r.position_group = "Other"

\* ------------------------------------------------------------------------
\* C17: with a threshold t > 0 and a non-empty subset left by the search,
\* team and position filters, the view holds exactly the rows of the subset
\* with play_count >= (t / 100) * (the maximum play_count of the subset);
\* with t = 0 it holds exactly the rows of the subset.
\* ------------------------------------------------------------------------
MaxOf(rows) ==
    CHOOSE m \in {rows[i].play_count : i \in 1..Len(rows)} :
        \A i \in 1..Len(rows) : rows[i].play_count <= m

C17_CutoffFromFilteredSubset ==
    Built =>
        /\ (w.plays > 0 /\ Subset # <<>>)
           => /\ Len(df_view) = Cardinality(Labels(df_view))
              /\ Labels(df_view)
                    = {Subset[i].idx : i \in {j \in 1..Len(Subset) :
                           100 * Subset[j].play_count >= w.plays * MaxOf(Subset)}}
        /\ w.plays = 0
           => /\ Len(df_view) = Len(Subset)
              /\ Labels(df_view) = Labels(Subset)

\* a position is selected and a row is kept that is below the cutoff the
\* maximum of the whole table would give
C17_Witness ==
    /\ Built
    /\ w.position # "all"
    /\ w.plays > 0
    /\ \E k \in 1..Len(df_view) :
          /\ 100 * df_view[k].play_count >= w.plays * MaxOf(Subset)
          /\ 100 * df_view[k].play_count < w.plays * MaxOf(df_base)

\* ------------------------------------------------------------------------
\* C18: the sort is stable: two rows of the view with equal values of the
\* sort key are in the order they have in the enriched table, for the
\* ascending sort (display_name) and for the descending sorts alike.
\* ------------------------------------------------------------------------
SameKey(col, a, b) ==
    IF KeyIsNull(col, a) \/ KeyIsNull(col, b)
    THEN KeyIsNull(col, a) /\ KeyIsNull(col, b)
    ELSE ~KeyLess(col, a, b) /\ ~KeyLess(col, b, a)

C18_SortStable ==
    (Built /\ w.sort \in df_columns) =>
        \A k, l \in 1..Len(df_view) :
            (k < l /\ SameKey(w.sort, df_view[k], df_view[l]))
            => df_view[k].idx < df_view[l].idx

\* ------------------------------------------------------------------------
\* C19: if the search, team and position filters leave a non-empty subset
\* with no negative play_count, the view is non-empty whatever the
\* threshold and holds every row of the subset whose play_count is the
\* maximum of the subset.
\* ------------------------------------------------------------------------
C19_TopRowsAlwaysShown ==
    (Built /\ Subset # <<>> /\ \A i \in 1..Len(Subset) : Subset[i].play_count >= 0)
    => /\ df_view # <<>>
       /\ \A i \in 1..Len(Subset) :
             Subset[i].play_count = MaxOf(Subset) => Subset[i].idx \in Labels(df_view)

\* the highest threshold is set, a row is cut, and the rows left are the
\* rows with the maximum play_count
C19_Witness ==
    /\ Built
    /\ w.plays = 80
    /\ Len(df_view) >= 1
    /\ Len(df_view) < Len(Subset)
    /\ \A k \in 1..Len(df_view) : df_view[k].play_count = MaxOf(Subset)

\* ------------------------------------------------------------------------
\* C20: for the same input tables, a supplied non-empty intervention
\* table, an empty search and "All Teams", the view of
\* create_player_attention_table has the rows of the df_view of app.py for
\* the same position, threshold and sort key, in the same order, with the
\* same rank, intervention_removal and impact_removal (and every other
\* column app.py has).
\* ------------------------------------------------------------------------
AppView ==
    df_view_of(build_base_dataframe(df, nfl_players, nfl_teams, Get(df_detailed_results)),
               w, kind)

\* the columns of a row of app.py's df_view
AppColumns == columns_app \cup {"idx", "rank"}

Project(rows, columns) == [k \in 1..Len(rows) |-> [f \in columns |-> rows[k][f]]]

C20_VariantsBuildSameView ==
    (variant = "streamlit" /\ has_interventions(df_detailed_results)
       /\ w.search = <<>> /\ w.team = "All Teams")
    => Project(df_view, AppColumns) = AppView

\* the streamlit variant shows, under a sort key other than the default,
\* several rows of which one has removal interventions and one has none
C20_Witness ==
    /\ variant = "streamlit"
    /\ has_interventions(df_detailed_results)
    /\ w.search = <<>> /\ w.team = "All Teams"
    /\ w.sort # "impact_removal"
    /\ Len(df_view) >= 2
    /\ \E k, l \in 1..Len(df_view) :
          /\ df_view[k].intervention_removal > 0
          /\ df_view[l].intervention_removal = 0

\* ------------------------------------------------------------------------
\* C21: pagination partitions the RankedView: total_pages is
\* max(1, ceil(N / 50)); page p of 1..total_pages holds the rows at 0-based
\* positions (p-1)*50 up to min(p*50, N) of the view, in view order; the
\* pages are pairwise disjoint and their concatenation in page order is the
\* view; the displayed page is the selected one and its rows keep the rank
\* they have in the whole view.
\* ------------------------------------------------------------------------
CeilDiv(n, d) == CHOOSE c \in 0..n : c * d >= n /\ (c - 1) * d < n

C21_PagesPartitionView ==
    LET N == Len(df_view)
        total_pages == total_pages_of(N)
        page(p) == paginated_df_of(df_view, p)
        upto(p) == IF p * 50 < N THEN p * 50 ELSE N
    IN /\ total_pages = IF CeilDiv(N, 50) > 1 THEN CeilDiv(N, 50) ELSE 1
       /\ \A p \in 1..total_pages :
             /\ page(p) = SubSeq(df_view, (p - 1) * 50 + 1, upto(p))
             /\ \A q \in 1..total_pages :
                   p # q => Labels(page(p)) \cap Labels(page(q)) = {}
       /\ Flatten([p \in 1..total_pages |-> page(p)]) = df_view
       /\ w.page \in 1..total_pages
       /\ paginated_df = page(w.page)
       /\ \A k \in 1..Len(paginated_df) : paginated_df[k].rank = (w.page - 1) * 50 + k

\* the third, partly filled page of a view of more than 100 rows is shown
\* and its first row has rank 101
C21_Witness ==
    /\ Len(df_view) > 100
    /\ w.page = 3
    /\ Len(paginated_df) \in 1..49
    /\ paginated_df[1].rank = 101
    /\ paginated_df[1].idx = Len(df_view) - 101

\* ------------------------------------------------------------------------
\* C22: a null join key matches nothing: an enriched row whose identifier
\* was null has null player columns and, where the aggregate columns exist,
\* count 0 and impact 0.0, whatever null-keyed rows the player and
\* intervention tables hold; a row whose latest_team is null has null team
\* colours, whatever null-keyed rows the team table holds.
\* ------------------------------------------------------------------------
C22_NullKeysNeverMatch ==
    Built =>
        \A k \in 1..Len(df_base) :
            LET r == df_base[k]
            IN /\ r.nfl_id = "nan"
                  => /\ IsNull(r.display_name) /\ IsNull(r.position)
                     /\ IsNull(r.latest_team) /\ IsNull(r.headshot)
                     /\ HasRemovalColumns
                        => r.intervention_removal = 0 /\ r.impact_removal = Zero
               /\ IsNull(r.latest_team)
                  => IsNull(r.team_abbr) /\ IsNull(r.team_color) /\ IsNull(r.team_color2)

====
